---- MODULE Spec2Model ----
(***************************************************************************)
(* State-machine model of visitoolkit_eventsystem/eventsystem.py:          *)
(* class EventSystem (handler registry, synchronous dispatch, asynchronous *)
(* dispatch through a shared queue) and class _AsyncExecutorThread (the    *)
(* shared worker with its counter of event sources).                       *)
(*                                                                         *)
(* Not modelled: logging, the duration statistics of fire (lines 148 and   *)
(* 169-172) and the arguments of fire, which are handed to the handlers    *)
(* unchanged.                                                              *)
(***************************************************************************)
EXTENDS Integers, Sequences, FiniteSets, TLC

(***************************************************************************)
(* Bounds of the model.                                                    *)
(***************************************************************************)
\* registrations one instance holds at a time
MaxHandlers == 2

\* instances in asynchronous mode
MaxInst == 2

\* work items put on the shared queue, over all fires
MaxItems == 2

\* work items put in the specification of the worker's life
MaxLifeItems == 1

\* registrations the instance holds in the specification of the registry
MaxRegistry == 3

\* registrations an instance holds, and work items put, in the specification
\* of the two modes side by side
MaxFrameHandlers == 1

MaxFrameItems == 1

\* registrations the instance holds in the specification of the registry lock
MaxLockHandlers == 2

\* work items put in the specification of concurrent fires
MaxOrderItems == 3

\* the instance the synchronous specification drives
SyncInstances == {<<"sync", 1>>}

\* the instances the asynchronous specification drives
AsyncInstances == {<<"async", n>> : n \in 1..MaxInst}

(***************************************************************************)
(* Python values, as far as fire and _execute look at them.                *)
(***************************************************************************)
PyNone == [t |-> "None"]

PyTrue == [t |-> "bool", v |-> "True"]

PyFalse == [t |-> "bool", v |-> "False"]

PyTuple(items) == [t |-> "tuple", items |-> items]

\* the class object cls
PyType(cls) == [t |-> "type", cls |-> cls]

\* an instance of the exception class cls
PyExc(cls) == [t |-> "exception", cls |-> cls]

PyTraceback == [t |-> "traceback"]

\* the exception classes that derive from Exception; SystemExit derives from
\* BaseException only
ExceptionClasses == {"ZeroDivisionError", "ValueError"}

\* isinstance(v, tuple)
IsTuple(v) == v.t = "tuple"

\* isinstance(v, Exception)
IsException(v) == v.t = "exception" /\ v.cls \in ExceptionClasses

(***************************************************************************)
(* The handlers.  cb1 and cb3 are the callbacks of the module's own demo:  *)
(* cb1 returns True, cb3 raises ZeroDivisionError.  cb_tuple returns a     *)
(* 3-tuple holding an exception object, cb_exit calls sys.exit().          *)
(***************************************************************************)
Handlers == {"cb1", "cb3", "cb_tuple", "cb_exit"}

\* what calling the handler does: it returns a value or raises
Call(h) ==
    CASE h = "cb1" -> [kind |-> "return", value |-> PyTrue]
      [] h = "cb3" -> [kind |-> "raise", exc |-> PyExc("ZeroDivisionError")]
      [] h = "cb_tuple" ->
            [kind |-> "return",
             value |-> PyTuple(<<PyType("ValueError"), PyExc("ValueError"), PyNone>>)]
      [] h = "cb_exit" -> [kind |-> "raise", exc |-> PyExc("SystemExit")]

\* sys.exc_info() while the exception e is handled
sys_exc_info(e) == PyTuple(<<PyType(e.cls), e, PyTraceback>>)

(***************************************************************************)
(* EventSystem._execute: the handler's result, or sys.exc_info() for what  *)
(* an "except Exception" clause catches; anything else propagates.         *)
(***************************************************************************)
ExecuteUncaught(h) ==
    LET out == Call(h) IN
    IF out.kind = "raise"
      THEN [kind |-> "raise", exc |-> out.exc]
      ELSE [kind |-> "return", value |-> out.value]

execute(h) ==
    LET out == Call(h) IN
    IF out.kind = "raise"
      THEN IF IsException(out.exc)
             THEN [kind |-> "return", value |-> sys_exc_info(out.exc)]
             ELSE [kind |-> "raise", exc |-> out.exc]
      ELSE [kind |-> "return", value |-> out.value]

\* the test of fire, line 158
IsErrorResult(result) ==
    /\ IsTuple(result)
    /\ Len(result.items) = 3
    /\ IsException(result.items[2])

ErrorWithTraceback(ei, tb, info) == IF ei THEN info ELSE info.items[2]

\* EventSystem._error, for the flags self._exc_info and self._traceback
error(ei, tb, info) ==
    IF ei
      THEN IF tb THEN info ELSE PyTuple(SubSeq(info.items, 1, 2))
      ELSE info.items[2]

\* one entry of fire's result list in synchronous mode, lines 158-162
SyncResult(ei, tb, result, h) ==
    IF IsErrorResult(result)
      THEN <<PyFalse, error(ei, tb, result), h>>
      ELSE <<PyTrue, result, h>>

AsyncResultNoHandler(h) == <<PyNone, PyNone, "none">>

\* the entry in asynchronous mode, line 166
AsyncResult(h) == <<PyNone, PyNone, h>>

(***************************************************************************)
(* The list operations the registry uses.                                  *)
(***************************************************************************)
ListPrepend(l, h) == <<h>> \o l

\* list.append
ListAppend(l, h) == Append(l, h)

\* h in l
Contains(l, h) == \E k \in DOMAIN l : l[k] = h

ListRemoveAll(l, h) == SelectSeq(l, LAMBDA x : x # h)

ListRemoveLast(l, h) ==
    LET k == CHOOSE k \in DOMAIN l : l[k] = h /\ \A j \in (k + 1)..Len(l) : l[j] # h
    IN  SubSeq(l, 1, k - 1) \o SubSeq(l, k + 1, Len(l))

\* list.remove where h is in l: scans from the front, deletes the first match
RECURSIVE ListRemove(_, _)
ListRemove(l, h) ==
    IF Head(l) = h THEN Tail(l) ELSE <<Head(l)>> \o ListRemove(Tail(l), h)

(***************************************************************************)
(* State.                                                                  *)
(***************************************************************************)
VARIABLES
    ipc,            \* per instance: where its life stands (__init__ .. __del__)
    sync_mode,      \* self._sync_mode
    exc_info,       \* self._exc_info
    traceback,      \* self._traceback
    handler_list,   \* self._handler_list
    exc_raised,     \* per instance: the exception its last registry call raised
    fire,           \* per instance: the frame of its fire call
    hist,           \* per instance: history of calls, for stating properties
    unh,            \* per instance: the handlers unhandled and not registered
                    \* again, now and at the start of its fire (history; only
                    \* UnhandleSpec keeps it)
    reg,            \* per instance: the calls of handle less the successful
                    \* calls of unhandle since the last clear, and the last
                    \* of these calls (history; only RegistrySpec keeps it)
    hlock,          \* per instance: self._hlock, its owner and how often the
                    \* owner has entered it (only LockSpec takes it)
    call,           \* per calling thread: the call it is inside, holding
                    \* self._hlock (only LockSpec)
    alock,          \* EventSystem._alock: Free or the instance holding it
    async_queue,    \* EventSystem._async_queue: None, or the queue's items
    async_thread,   \* EventSystem._async_thread: 0 for None, or the number
                    \* of the thread in threads
    threads,        \* the _AsyncExecutorThread objects created so far
    tmp,            \* per instance: the value read by += and -= (lines 270, 277)
    executed,       \* history: ids of the work items whose handler the
                    \* worker has run, in order
    nput            \* history: the number of work items put so far

\* the state of the instances
inst == <<sync_mode, exc_info, traceback, handler_list, exc_raised>>

\* the state shared by the instances in asynchronous mode
shared == <<alock, async_queue, async_thread, threads, tmp, executed, nput>>

\* the registry lock and the threads calling under it
locks == <<hlock, call>>

\* the histories, and the lock, that one specification each keeps
aux == <<unh, reg, locks>>

\* the threads that call into an instance: T1 fires, and calls back from the
\* handler its fire is running; T2 is any other thread
Callers == {"T1", "T2"}

\* the calls that enter self._hlock besides the copy of fire itself: handle,
\* unhandle, clear, getHandlerCount and a fire called from a handler
Ops == {"handle", "unhandle", "clear", "getHandlerCount", "fire"}

\* an RLock nobody holds
Unlocked == [owner |-> "none", count |-> 0]

vars == <<ipc, inst, fire, hist, aux, shared>>

Instances == SyncInstances \cup AsyncInstances

\* no call of handle, unhandle or clear yet
NoCall == [op |-> "none", h |-> "none", before |-> <<>>]

\* a lock nobody holds
Free == <<"free", 0>>

\* the frame of fire when no call is in progress
NoFire == [pc |-> "idle", handler_list |-> <<>>, idx |-> 1, result_list |-> <<>>]

\* history: registry as registered (handle appends, unhandle takes the first
\* match out, clear empties), the same at the start of the fire in progress,
\* the list self._handler_list held at that start, the handlers the fire has
\* called, the work items the fire has put
NoHist == [registry |-> <<>>, reg_begin |-> <<>>, list_begin |-> <<>>,
           invoked |-> <<>>, queued |-> <<>>]

Idle(i) == fire[i].pc \in {"idle", "returned", "raised"}

(***************************************************************************)
(* Init: the module is loaded, no instance constructed yet (lines 94-96).  *)
(***************************************************************************)
Init ==
    /\ ipc = [i \in Instances |-> "none"]
    /\ sync_mode = [i \in Instances |-> TRUE]
    /\ exc_info = [i \in Instances |-> TRUE]
    /\ traceback = [i \in Instances |-> FALSE]
    /\ handler_list = [i \in Instances |-> <<>>]
    /\ exc_raised = [i \in Instances |-> "none"]
    /\ fire = [i \in Instances |-> NoFire]
    /\ hist = [i \in Instances |-> NoHist]
    /\ unh = [i \in Instances |-> [now |-> {}, begin |-> {}]]
    /\ reg = [i \in Instances |-> [live |-> 0, last |-> NoCall]]
    /\ hlock = [i \in Instances |-> Unlocked]
    /\ call = [c \in Callers |-> "none"]
    /\ alock = Free
    /\ async_queue = [exists |-> FALSE, items |-> <<>>]
    /\ async_thread = 0
    /\ threads = <<>>
    /\ tmp = [i \in Instances |-> 0]
    /\ executed = <<>>
    /\ nput = 0

(***************************************************************************)
(* EventSystem.__init__ of a synchronous instance, lines 98-107.           *)
(***************************************************************************)
InitSync(i, ei, tb) ==
    /\ ipc[i] = "none"
    /\ ipc' = [ipc EXCEPT ![i] = "live"]
    /\ sync_mode' = [sync_mode EXCEPT ![i] = TRUE]
    /\ exc_info' = [exc_info EXCEPT ![i] = ei]
    /\ traceback' = [traceback EXCEPT ![i] = tb]
    /\ handler_list' = [handler_list EXCEPT ![i] = <<>>]
    /\ UNCHANGED <<exc_raised, fire, hist, shared>>

(***************************************************************************)
(* EventSystem.handle, lines 130-134.                                      *)
(***************************************************************************)
Register(i, h) ==
    /\ ipc[i] = "live"
    /\ handler_list' = [handler_list EXCEPT ![i] = ListAppend(@, h)]
    /\ exc_raised' = [exc_raised EXCEPT ![i] = "none"]
    /\ hist' = [hist EXCEPT ![i].registry = Append(@, h)]
    /\ UNCHANGED <<ipc, sync_mode, exc_info, traceback, fire, shared>>

\* handle while the instance holds less than MaxHandlers registrations
handle(i, h) ==
    /\ Len(handler_list[i]) < MaxHandlers
    /\ Register(i, h)

(***************************************************************************)
(* EventSystem.unhandle, lines 136-143: list.remove, or ValueError.        *)
(***************************************************************************)
RemoveFirst(l, h) ==
    LET k == CHOOSE k \in DOMAIN l : l[k] = h /\ \A j \in 1..(k - 1) : l[j] # h
    IN  SubSeq(l, 1, k - 1) \o SubSeq(l, k + 1, Len(l))

unhandle(i, h) ==
    /\ ipc[i] = "live"
    /\ \/ /\ Contains(handler_list[i], h)
          /\ handler_list' = [handler_list EXCEPT ![i] = ListRemove(@, h)]
          /\ exc_raised' = [exc_raised EXCEPT ![i] = "none"]
          /\ hist' = [hist EXCEPT ![i].registry =
                                      IF Contains(@, h) THEN RemoveFirst(@, h) ELSE @]
       \/ /\ ~Contains(handler_list[i], h)
          /\ exc_raised' = [exc_raised EXCEPT ![i] = "ValueError"]
          /\ UNCHANGED <<handler_list, hist>>
    /\ UNCHANGED <<ipc, sync_mode, exc_info, traceback, fire, shared>>

(***************************************************************************)
(* EventSystem.clear, lines 209-212.                                       *)
(***************************************************************************)
ClearWithQueue(i) ==
    /\ ipc[i] = "live"
    /\ handler_list' = [handler_list EXCEPT ![i] = <<>>]
    /\ exc_raised' = [exc_raised EXCEPT ![i] = "none"]
    /\ hist' = [hist EXCEPT ![i].registry = <<>>]
    /\ async_queue' = [async_queue EXCEPT !.items = <<>>]
    /\ UNCHANGED <<ipc, sync_mode, exc_info, traceback, fire, alock, async_thread,
                   threads, tmp, executed, nput>>

clear(i) ==
    /\ ipc[i] = "live"
    /\ handler_list' = [handler_list EXCEPT ![i] = <<>>]
    /\ exc_raised' = [exc_raised EXCEPT ![i] = "none"]
    /\ hist' = [hist EXCEPT ![i].registry = <<>>]
    /\ UNCHANGED <<ipc, sync_mode, exc_info, traceback, fire, shared>>

CountOfSnapshot(i) == Len(fire[i].handler_list)

\* EventSystem.getHandlerCount, lines 205-207
getHandlerCount(i) == Len(handler_list[i])

(***************************************************************************)
(* EventSystem.fire, lines 145-174, in steps: the copy of the list under   *)
(* the lock (FireBegin), the call of a handler (FireCall), the return of  *)
(* the handler called in synchronous mode (FireExecuted).                  *)
(***************************************************************************)
\* copy.copy of a list: a new list of the same elements
Copy(l) == [k \in DOMAIN l |-> l[k]]

FireBegin(i) ==
    /\ ipc[i] = "live"
    /\ Idle(i)
    /\ fire' = [fire EXCEPT ![i] = [pc |-> "for",
                                    handler_list |-> Copy(handler_list[i]),
                                    idx |-> 1,
                                    result_list |-> <<>>]]
    /\ hist' = [hist EXCEPT ![i].reg_begin = hist[i].registry,
                            ![i].list_begin = handler_list[i],
                            ![i].invoked = <<>>,
                            ![i].queued = <<>>]
    /\ UNCHANGED <<ipc, inst, shared>>

LiveList(i) == handler_list[i]

\* the list the for loop of line 154 walks: the local copy
LoopList(i) == fire[i].handler_list

\* the loop is over: return result_list
FireReturn(i) ==
    /\ fire[i].pc = "for"
    /\ fire[i].idx > Len(LoopList(i))
    /\ fire' = [fire EXCEPT ![i].pc = "returned"]
    /\ UNCHANGED <<ipc, inst, hist, shared>>

\* synchronous mode: self._execute(handler) calls the handler
FireCall(i) ==
    /\ fire[i].pc = "for"
    /\ fire[i].idx <= Len(LoopList(i))
    /\ sync_mode[i]
    /\ fire' = [fire EXCEPT ![i].pc = "exec"]
    /\ hist' = [hist EXCEPT ![i].invoked = Append(@, LoopList(i)[fire[i].idx])]
    /\ UNCHANGED <<ipc, inst, shared>>

\* the handler is over: _execute returns, fire appends the entry; or the
\* exception _execute does not catch leaves fire
FireExecuted(i) ==
    /\ fire[i].pc = "exec"
    /\ LET h == hist[i].invoked[Len(hist[i].invoked)]
           r == execute(h)
       IN  IF r.kind = "return"
             THEN fire' = [fire EXCEPT
                      ![i].result_list =
                          Append(@, SyncResult(exc_info[i], traceback[i], r.value, h)),
                      ![i].idx = @ + 1,
                      ![i].pc = "for"]
             ELSE fire' = [fire EXCEPT ![i].pc = "raised"]
    /\ UNCHANGED <<ipc, inst, hist, shared>>

(***************************************************************************)
(* EventSystem.__del__ of a synchronous instance, lines 214-215: nothing   *)
(* but the end of the instance.  No call is in progress on an object that  *)
(* is being finalized; the object's state goes with it.                    *)
(***************************************************************************)
DelSync(i) ==
    /\ ipc[i] = "live"
    /\ sync_mode[i]
    /\ Idle(i)
    /\ ipc' = [ipc EXCEPT ![i] = "disposed"]
    /\ handler_list' = [handler_list EXCEPT ![i] = <<>>]
    /\ exc_raised' = [exc_raised EXCEPT ![i] = "none"]
    /\ fire' = [fire EXCEPT ![i] = NoFire]
    /\ hist' = [hist EXCEPT ![i] = NoHist]
    /\ UNCHANGED <<sync_mode, exc_info, traceback, shared>>

(***************************************************************************)
(* The synchronous specification: one instance in synchronous mode, with   *)
(* every setting of its two flags.  Calls of handle, unhandle and clear    *)
(* come at any time, also while a fire is in progress: from another thread *)
(* or from the handler that fire is running.                               *)
(***************************************************************************)
SyncNext ==
    /\ \E i \in SyncInstances :
        \/ \E ei \in BOOLEAN, tb \in BOOLEAN : InitSync(i, ei, tb)
        \/ \E h \in Handlers : handle(i, h)
        \/ \E h \in Handlers : unhandle(i, h)
        \/ clear(i)
        \/ FireBegin(i)
        \/ FireCall(i)
        \/ FireExecuted(i)
        \/ FireReturn(i)
        \/ DelSync(i)
    /\ UNCHANGED aux

SyncSpec == Init /\ [][SyncNext]_vars

(***************************************************************************)
(* The same instance with the history of its unhandle calls kept: the      *)
(* handlers of UnhandleHandlers, default flags.                            *)
(***************************************************************************)
UnhandleHandlers == {"cb1", "cb3"}

UnhandleNext ==
    /\ \E i \in SyncInstances :
        \/ InitSync(i, TRUE, FALSE) /\ UNCHANGED unh
        \/ \E h \in UnhandleHandlers :
              handle(i, h) /\ unh' = [unh EXCEPT ![i].now = @ \ {h}]
        \/ \E h \in UnhandleHandlers :
              /\ unhandle(i, h)
              /\ unh' = IF Contains(handler_list[i], h)
                          THEN [unh EXCEPT ![i].now = @ \cup {h}]
                          ELSE unh
        \/ clear(i) /\ UNCHANGED unh
        \/ FireBegin(i) /\ unh' = [unh EXCEPT ![i].begin = unh[i].now]
        \/ FireCall(i) /\ UNCHANGED unh
        \/ FireExecuted(i) /\ UNCHANGED unh
        \/ FireReturn(i) /\ UNCHANGED unh
    /\ UNCHANGED <<reg, locks>>

UnhandleSpec == Init /\ [][UnhandleNext]_vars

(***************************************************************************)
(* The specification of the registry: the same instance holding up to      *)
(* MaxRegistry registrations of the handlers of RegistryHandlers, with the *)
(* history of its calls of handle, unhandle and clear kept.  The calls     *)
(* come at any time, also while a fire is in progress.                     *)
(***************************************************************************)
RegistryHandlers == {"cb1", "cb3"}

\* the history after the call op with handler h
Called(i, op, h, live) ==
    [reg EXCEPT ![i] = [live |-> live,
                        last |-> [op |-> op, h |-> h, before |-> handler_list[i]]]]

RegistryNext ==
    /\ \E i \in SyncInstances :
        \/ InitSync(i, TRUE, FALSE) /\ UNCHANGED reg
        \/ \E h \in RegistryHandlers :
              /\ Len(handler_list[i]) < MaxRegistry
              /\ Register(i, h)
              /\ reg' = Called(i, "handle", h, reg[i].live + 1)
        \/ \E h \in RegistryHandlers :
              /\ unhandle(i, h)
              /\ reg' = Called(i, "unhandle", h,
                               IF exc_raised'[i] = "none"
                                 THEN reg[i].live - 1 ELSE reg[i].live)
        \/ clear(i) /\ reg' = Called(i, "clear", "none", 0)
        \/ FireBegin(i) /\ UNCHANGED reg
        \/ FireCall(i) /\ UNCHANGED reg
        \/ FireExecuted(i) /\ UNCHANGED reg
        \/ FireReturn(i) /\ UNCHANGED reg
    /\ UNCHANGED <<unh, locks>>

RegistrySpec == Init /\ [][RegistryNext]_vars

(***************************************************************************)
(* The registry lock self._hlock, a threading.RLock (line 102): the thread *)
(* that owns it may enter it again, any other thread waits until it is     *)
(* released as often as it was entered.                                    *)
(***************************************************************************)
\* the thread c can enter the lock
Acquirable(l, c) == l.owner \in {"none", c}

\* the lock after c has entered it
Lock(l, c) == [owner |-> c, count |-> l.count + 1]

\* the lock after its owner has left a with block
Unlock(l) == IF l.count = 1 THEN Unlocked ELSE [l EXCEPT !.count = @ - 1]

CopyKeepsLock(l) == l

\* the end of the with block of fire, line 152, before the for loop
CopyUnlock(l) == Unlock(l)

\* fire enters "with self._hlock", line 151
FireLock(i) ==
    /\ ipc[i] = "live"
    /\ Idle(i)
    /\ call["T1"] = "none"
    /\ Acquirable(hlock[i], "T1")
    /\ hlock' = [hlock EXCEPT ![i] = Lock(@, "T1")]
    /\ call' = [call EXCEPT !["T1"] = "copy"]
    /\ UNCHANGED <<ipc, inst, fire, hist, unh, reg, shared>>

\* the copy of line 152 and the end of the with block
FireCopy(i) ==
    /\ call["T1"] = "copy"
    /\ FireBegin(i)
    /\ hlock' = [hlock EXCEPT ![i] = CopyUnlock(@)]
    /\ call' = [call EXCEPT !["T1"] = "none"]
    /\ UNCHANGED <<unh, reg>>

\* the thread c is where it can call op: T2 anywhere, T1 between its fires
\* and inside the handler its fire is running
CanCall(i, c) ==
    /\ ipc[i] = "live"
    /\ call[c] = "none"
    /\ c = "T1" => (Idle(i) \/ fire[i].pc = "exec")

\* the thread c calls op and enters "with self._hlock" (lines 132, 138, 151,
\* 206, 211)
CallLock(i, c, op) ==
    /\ CanCall(i, c)
    /\ Acquirable(hlock[i], c)
    /\ hlock' = [hlock EXCEPT ![i] = Lock(@, c)]
    /\ call' = [call EXCEPT ![c] = op]
    /\ UNCHANGED <<ipc, inst, fire, hist, unh, reg, shared>>

\* the body of the with block and its end: also the exception of unhandle
\* leaves the block and releases the lock.  getHandlerCount reads, and the
\* fire called from a handler copies, without a change of the registry.
CallDo(i, c) ==
    /\ call[c] \in Ops
    /\ hlock[i].owner = c
    /\ CASE call[c] = "handle" -> Register(i, "cb1")
         [] call[c] = "unhandle" -> unhandle(i, "cb1")
         [] call[c] = "clear" -> clear(i)
         [] OTHER -> UNCHANGED <<ipc, inst, fire, hist, shared>>
    /\ hlock' = [hlock EXCEPT ![i] = Unlock(@)]
    /\ call' = [call EXCEPT ![c] = "none"]
    /\ UNCHANGED <<unh, reg>>

(***************************************************************************)
(* The specification of the registry lock: one instance in synchronous     *)
(* mode, the thread T1 that fires it and calls it from its handler, the    *)
(* thread T2 that calls it at any time; handle is called while the         *)
(* registry holds less than MaxLockHandlers registrations.                 *)
(***************************************************************************)
LockNext ==
    \E i \in SyncInstances :
        \/ InitSync(i, TRUE, FALSE) /\ UNCHANGED aux
        \/ FireLock(i)
        \/ FireCopy(i)
        \/ FireCall(i) /\ UNCHANGED aux
        \/ FireExecuted(i) /\ call["T1"] = "none" /\ UNCHANGED aux
        \/ FireReturn(i) /\ UNCHANGED aux
        \/ \E c \in Callers, op \in Ops :
              /\ op = "handle" => Len(handler_list[i]) < MaxLockHandlers
              /\ CallLock(i, c, op)
        \/ \E c \in Callers : CallDo(i, c)

LockSpec == Init /\ [][LockNext]_vars

(***************************************************************************)
(* EventSystem.__init__ of an instance in asynchronous mode, lines 98-105, *)
(* up to the call of _setup_async_thread.                                  *)
(***************************************************************************)
InitAsync(i) ==
    /\ ipc[i] = "none"
    /\ ipc' = [ipc EXCEPT ![i] = "setup"]
    /\ sync_mode' = [sync_mode EXCEPT ![i] = FALSE]
    /\ exc_info' = [exc_info EXCEPT ![i] = TRUE]
    /\ traceback' = [traceback EXCEPT ![i] = FALSE]
    /\ handler_list' = [handler_list EXCEPT ![i] = <<>>]
    /\ UNCHANGED <<exc_raised, fire, hist, shared>>

(***************************************************************************)
(* EventSystem._setup_async_thread, lines 109-128, in steps: taking _alock *)
(* and making the queue (SetupLock), the test of _async_thread with the    *)
(* creation and start of the thread (SetupThread), and, for an existing    *)
(* thread, inc_nof_eventsources (IncLock, IncStore).                       *)
(***************************************************************************)
SetupLock(i) ==
    /\ ipc[i] = "setup"
    /\ alock = Free
    /\ alock' = i
    /\ async_queue' = IF ~async_queue.exists
                        THEN [exists |-> TRUE, items |-> <<>>]
                        ELSE async_queue
    /\ ipc' = [ipc EXCEPT ![i] = "setup_thread"]
    /\ UNCHANGED <<inst, fire, hist, async_thread, threads, tmp, executed, nput>>

\* a work item; id numbers the puts, for the history
NoItem == [target |-> "none", id |-> 0]

\* _AsyncExecutorThread.__init__, lines 236-243, and start(): the thread is
\* at the test of its while loop.  empty_poll is history: the pass of the
\* loop that just ended found the queue empty.
NewThread == [pc |-> "while", nof_eventsources |-> 1, lock |-> Free, cur |-> NoItem,
              empty_poll |-> FALSE]

ThreadNeverSet == FALSE

\* "if EventSystem._async_thread", line 114: true of every thread object,
\* running or not
ThreadIsSet == async_thread # 0

SetupThread(i) ==
    /\ ipc[i] = "setup_thread"
    /\ IF ThreadIsSet
         THEN /\ ipc' = [ipc EXCEPT ![i] = "inc"]
              /\ UNCHANGED <<alock, async_thread, threads>>
         ELSE /\ threads' = Append(threads, NewThread)
              /\ async_thread' = Len(threads) + 1
              /\ alock' = Free
              /\ ipc' = [ipc EXCEPT ![i] = "live"]
    /\ UNCHANGED <<inst, fire, hist, async_queue, tmp, executed, nput>>

LockIgnored(t) == TRUE

\* "with self._lock" can be entered, lines 269 and 276
LockFree(t) == threads[t].lock = Free

\* self._nof_eventsources += 1, line 270
inc(n) == n + 1

DecNothing(n) == n

\* self._nof_eventsources -= 1, line 277
dec(n) == n - 1

\* _AsyncExecutorThread.inc_nof_eventsources, lines 268-273: under the lock,
\* the counter is read (IncLock) and written (IncStore)
IncLock(i) ==
    /\ ipc[i] = "inc"
    /\ LockFree(async_thread)
    /\ threads' = [threads EXCEPT ![async_thread].lock = i]
    /\ tmp' = [tmp EXCEPT ![i] = threads[async_thread].nof_eventsources]
    /\ ipc' = [ipc EXCEPT ![i] = "inc_store"]
    /\ UNCHANGED <<inst, fire, hist, alock, async_queue, async_thread, executed, nput>>

\* the write, the release of the lock, and the end of _setup_async_thread
\* and of __init__
IncStore(i) ==
    /\ ipc[i] = "inc_store"
    /\ threads' = [threads EXCEPT ![async_thread].nof_eventsources = inc(tmp[i]),
                                  ![async_thread].lock = Free]
    /\ alock' = Free
    /\ ipc' = [ipc EXCEPT ![i] = "live"]
    /\ UNCHANGED <<inst, fire, hist, async_queue, async_thread, tmp, executed, nput>>

(***************************************************************************)
(* EventSystem.__del__ of an instance in asynchronous mode, lines 214-219, *)
(* with _AsyncExecutorThread.dec_nof_eventsources, lines 275-280: the read *)
(* under the lock (DelLock) and the write (DelStore).  No call is in       *)
(* progress on an object that is being finalized.                          *)
(***************************************************************************)
DelLock(i) ==
    /\ ipc[i] = "live"
    /\ ~sync_mode[i]
    /\ Idle(i)
    /\ LockFree(async_thread)
    /\ threads' = [threads EXCEPT ![async_thread].lock = i]
    /\ tmp' = [tmp EXCEPT ![i] = threads[async_thread].nof_eventsources]
    /\ ipc' = [ipc EXCEPT ![i] = "dec_store"]
    /\ UNCHANGED <<inst, fire, hist, alock, async_queue, async_thread, executed, nput>>

DelStore(i) ==
    /\ ipc[i] = "dec_store"
    /\ threads' = [threads EXCEPT ![async_thread].nof_eventsources = dec(tmp[i]),
                                  ![async_thread].lock = Free]
    /\ ipc' = [ipc EXCEPT ![i] = "disposed"]
    /\ handler_list' = [handler_list EXCEPT ![i] = <<>>]
    /\ exc_raised' = [exc_raised EXCEPT ![i] = "none"]
    /\ fire' = [fire EXCEPT ![i] = NoFire]
    /\ hist' = [hist EXCEPT ![i] = NoHist]
    /\ tmp' = [tmp EXCEPT ![i] = 0]
    /\ UNCHANGED <<sync_mode, exc_info, traceback, alock, async_queue, async_thread,
                   executed, nput>>

(***************************************************************************)
(* EventSystem.fire in asynchronous mode, lines 163-167: one put per       *)
(* handler of the copy.                                                    *)
(***************************************************************************)
PutBounded(q) == Len(q.items) < 1

\* Queue.put can go on: queue.Queue() of line 113 has no maximal size
PutReady(q) == TRUE

FirePut(i) ==
    /\ fire[i].pc = "for"
    /\ fire[i].idx <= Len(LoopList(i))
    /\ ~sync_mode[i]
    /\ PutReady(async_queue)
    /\ LET h == LoopList(i)[fire[i].idx]
       IN  /\ async_queue' = [async_queue EXCEPT
                                 !.items = Append(@, [target |-> h, id |-> nput + 1])]
           /\ fire' = [fire EXCEPT ![i].result_list = Append(@, AsyncResult(h)),
                                   ![i].idx = @ + 1]
    /\ nput' = nput + 1
    /\ hist' = [hist EXCEPT ![i].queued =
                                Append(@, [target |-> LoopList(i)[fire[i].idx],
                                           id |-> nput + 1])]
    /\ UNCHANGED <<ipc, inst, alock, async_thread, threads, tmp, executed>>

(***************************************************************************)
(* _AsyncExecutorThread.run, lines 245-266, in steps: the test of the      *)
(* while loop (WorkerWhile), the get without blocking, with the sleep when *)
(* the queue is empty (WorkerGet), the end of the handler that was called  *)
(* (WorkerExec).                                                           *)
(***************************************************************************)
\* the test of line 246
WhileTest(n) == n > 0

WorkerWhile(t) ==
    /\ threads[t].pc = "while"
    /\ threads' = IF WhileTest(threads[t].nof_eventsources)
                    THEN [threads EXCEPT ![t].pc = "get", ![t].empty_poll = FALSE]
                    ELSE [threads EXCEPT ![t].pc = "done"]
    /\ UNCHANGED <<ipc, inst, fire, hist, alock, async_queue, async_thread, tmp,
                   executed, nput>>

Lifo(items) == [k \in DOMAIN items |-> items[Len(items) + 1 - k]]

\* the order in which queue.Queue hands its items out: first in, first out
Fifo(items) == items

WorkerGet(t) ==
    /\ threads[t].pc = "get"
    /\ IF async_queue.items = <<>>
         THEN /\ threads' = [threads EXCEPT ![t].pc = "while",
                                            ![t].empty_poll = TRUE]
              /\ UNCHANGED async_queue
         ELSE /\ threads' = [threads EXCEPT ![t].pc = "exec",
                                            ![t].cur = Head(Fifo(async_queue.items)),
                                            ![t].empty_poll = FALSE]
              /\ async_queue' = [async_queue EXCEPT !.items = Tail(Fifo(@))]
    /\ UNCHANGED <<ipc, inst, fire, hist, alock, async_thread, tmp, executed, nput>>

\* what "except Exception" of line 260 lets the loop go on after
WorkerSurvives(out) == out.kind = "return" \/ IsException(out.exc)

WorkerExec(t) ==
    /\ threads[t].pc = "exec"
    /\ threads' = [threads EXCEPT
                      ![t].pc = IF WorkerSurvives(Call(threads[t].cur.target))
                                  THEN "while" ELSE "died",
                      ![t].cur = NoItem]
    /\ executed' = Append(executed, threads[t].cur.id)
    /\ UNCHANGED <<ipc, inst, fire, hist, alock, async_queue, async_thread, tmp, nput>>

(***************************************************************************)
(* The asynchronous specification: one instance in asynchronous mode, its  *)
(* registry, its fires and the worker.  A fire starts when the items it    *)
(* will put are within MaxItems.                                           *)
(***************************************************************************)
AsyncHandlers == {"cb1", "cb3"}

\* the instance the asynchronous specification drives
DispatchInstances == {<<"async", 1>>}

Worker ==
    \E t \in DOMAIN threads :
        \/ WorkerWhile(t)
        \/ WorkerGet(t)
        \/ WorkerExec(t)

\* a step of a worker thread
WorkerStep == Worker /\ UNCHANGED aux

Next ==
    /\ \/ \E i \in DispatchInstances :
            \/ InitAsync(i)
            \/ SetupLock(i)
            \/ SetupThread(i)
            \/ \E h \in AsyncHandlers : handle(i, h)
            \/ \E h \in AsyncHandlers : unhandle(i, h)
            \/ clear(i)
            \/ FireBegin(i) /\ nput + Len(handler_list[i]) <= MaxItems
            \/ FirePut(i)
            \/ FireReturn(i)
            \/ DelLock(i)
            \/ DelStore(i)
       \/ Worker
    /\ UNCHANGED aux

Spec == Init /\ [][Next]_vars

\* the worker thread is scheduled again and again; a handler it runs returns
FairSpec == Spec /\ WF_vars(WorkerStep)

(***************************************************************************)
(* The specification of the life of the worker: MaxInst instances in       *)
(* asynchronous mode are constructed and finalized in any interleaving;    *)
(* each registers cb1 at most once and fires within MaxItems.              *)
(***************************************************************************)
LifeNext ==
    /\ \/ \E i \in AsyncInstances :
            \/ InitAsync(i)
            \/ SetupLock(i)
            \/ SetupThread(i)
            \/ IncLock(i)
            \/ IncStore(i)
            \/ handle(i, "cb1") /\ handler_list[i] = <<>>
            \/ FireBegin(i) /\ nput + Len(handler_list[i]) <= MaxLifeItems
            \/ FirePut(i)
            \/ FireReturn(i)
            \/ DelLock(i)
            \/ DelStore(i)
       \/ Worker
    /\ UNCHANGED aux

LifeSpec == Init /\ [][LifeNext]_vars

(***************************************************************************)
(* The specification of concurrent fires: two instances in asynchronous    *)
(* mode are constructed, register each its own handler, as often as it     *)
(* likes, before their first fire, and fire in any interleaving of their   *)
(* steps and the worker's.  A fire starts when the items it will put are   *)
(* within MaxOrderItems.                                                   *)
(***************************************************************************)
OrderInstances == {<<"async", 1>>, <<"async", 2>>}

\* the handler the instance registers
OrderHandler(i) == IF i = <<"async", 1>> THEN "cb1" ELSE "cb3"

OrderNext ==
    /\ \/ \E i \in OrderInstances :
            \/ InitAsync(i)
            \/ SetupLock(i)
            \/ SetupThread(i)
            \/ IncLock(i)
            \/ IncStore(i)
            \/ /\ fire[i].pc = "idle"
               /\ Len(handler_list[i]) < MaxOrderItems - 1
               /\ Register(i, OrderHandler(i))
            \/ FireBegin(i) /\ nput + Len(handler_list[i]) <= MaxOrderItems
            \/ FirePut(i)
            \/ FireReturn(i)
       \/ Worker
    /\ UNCHANGED aux

OrderSpec == Init /\ [][OrderNext]_vars

(***************************************************************************)
(* The specification of either mode: one instance is constructed, in       *)
(* synchronous mode (default flags) or in asynchronous mode, with its      *)
(* registry and its fires, and the worker.                                 *)
(***************************************************************************)
ModeInstances == SyncInstances \cup DispatchInstances

ModeHandlers == {"cb1", "cb3"}

\* no instance was constructed yet
NoneConstructed == \A j \in ModeInstances : ipc[j] = "none"

ModeNext ==
    /\ \/ \E i \in SyncInstances :
            \/ InitSync(i, TRUE, FALSE) /\ NoneConstructed
            \/ FireCall(i)
            \/ FireExecuted(i)
            \/ DelSync(i)
       \/ \E i \in DispatchInstances :
            \/ InitAsync(i) /\ NoneConstructed
            \/ SetupLock(i)
            \/ SetupThread(i)
            \/ FirePut(i)
            \/ DelLock(i)
            \/ DelStore(i)
       \/ \E i \in ModeInstances :
            \/ \E h \in ModeHandlers : handle(i, h)
            \/ \E h \in ModeHandlers : unhandle(i, h)
            \/ clear(i)
            \/ FireBegin(i) /\ (sync_mode[i] \/ nput + Len(handler_list[i]) <= MaxItems)
            \/ FireReturn(i)
       \/ Worker
    /\ UNCHANGED aux

ModeSpec == Init /\ [][ModeNext]_vars

(***************************************************************************)
(* The specification of the two modes side by side: one instance in        *)
(* synchronous mode and one in asynchronous mode, each registering cb1 up  *)
(* to MaxFrameHandlers times, with their fires, and the worker.  A fire of *)
(* the asynchronous instance starts when the items it will put are within  *)
(* MaxFrameItems.                                                          *)
(***************************************************************************)
FrameInstances == SyncInstances \cup DispatchInstances

FrameNext ==
    /\ \/ \E i \in SyncInstances :
            \/ InitSync(i, TRUE, FALSE)
            \/ FireCall(i)
            \/ FireExecuted(i)
            \/ DelSync(i)
       \/ \E i \in DispatchInstances :
            \/ InitAsync(i)
            \/ SetupLock(i)
            \/ SetupThread(i)
            \/ FirePut(i)
            \/ DelLock(i)
            \/ DelStore(i)
       \/ \E i \in FrameInstances :
            \/ Len(handler_list[i]) < MaxFrameHandlers /\ Register(i, "cb1")
            \/ unhandle(i, "cb1")
            \/ clear(i)
            \/ FireBegin(i) /\ (sync_mode[i] \/ nput + Len(handler_list[i]) <= MaxFrameItems)
            \/ FireReturn(i)
       \/ Worker
    /\ UNCHANGED aux

FrameSpec == Init /\ [][FrameNext]_vars

(***************************************************************************)
(* The specification of the worker running handlers that raise: one        *)
(* instance in asynchronous mode registers and fires the handlers of       *)
(* RaisingHandlers and is not finalized.                                   *)
(***************************************************************************)
RaisingHandlers == {"cb3", "cb_exit"}

RaisingNext ==
    /\ \/ \E i \in DispatchInstances :
            \/ InitAsync(i)
            \/ SetupLock(i)
            \/ SetupThread(i)
            \/ \E h \in RaisingHandlers : handle(i, h)
            \/ FireBegin(i) /\ nput + Len(handler_list[i]) <= MaxItems
            \/ FirePut(i)
            \/ FireReturn(i)
       \/ Worker
    /\ UNCHANGED aux

RaisingSpec == Init /\ [][RaisingNext]_vars

\* the worker thread is scheduled again and again; a handler it runs returns
FairLifeSpec == LifeSpec /\ WF_vars(WorkerStep)

(***************************************************************************)
(* Properties.                                                             *)
(***************************************************************************)
IsPrefix(s, t) == Len(s) <= Len(t) /\ \A k \in DOMAIN s : s[k] = t[k]

Count(s, h) == Cardinality({k \in DOMAIN s : s[k] = h})

\* the handlers of the entries of the result list, in order
ResultHandlers(i) == [k \in DOMAIN fire[i].result_list |-> fire[i].result_list[k][3]]

\* C5: a synchronous fire invokes the handlers in the order of their
\* registration, once per registration (the same handler as often as it is
\* registered), and one at a time: a handler is invoked only when every
\* earlier one has delivered its entry.
C5_RegistrationOrder ==
    \A i \in SyncInstances :
        /\ IsPrefix(hist[i].invoked, hist[i].reg_begin)
        /\ fire[i].pc = "returned" => hist[i].invoked = hist[i].reg_begin
        /\ Len(hist[i].invoked) =
               Len(fire[i].result_list)
                   + (IF fire[i].pc \in {"exec", "raised"} THEN 1 ELSE 0)

\* C5 witness: a fire has returned after invoking a handler registered twice,
\* twice.
C5_Witness ==
    \E i \in SyncInstances :
        /\ fire[i].pc = "returned"
        /\ Len(hist[i].invoked) = 2
        /\ hist[i].invoked[1] = hist[i].invoked[2]
        /\ hist[i].reg_begin = hist[i].invoked

C7_SuccessForEveryReturn ==
    \A i \in SyncInstances :
        \A k \in DOMAIN fire[i].result_list :
            LET h == fire[i].result_list[k][3]
            IN  /\ Call(h).kind = "return" =>
                      fire[i].result_list[k] = <<PyTrue, Call(h).value, h>>
                /\ fire[i].result_list[k][1] = PyFalse => Call(h).kind = "raise"

\* C8: a fire invokes, and reports on, the handlers self._handler_list held
\* when the fire started, whatever handle, unhandle and clear do to the list
\* while the fire is in progress; the list as changed is what the next fire
\* starts from.
C8_Snapshot ==
    \A i \in SyncInstances :
        /\ IsPrefix(hist[i].invoked, hist[i].list_begin)
        /\ IsPrefix(ResultHandlers(i), hist[i].list_begin)
        /\ fire[i].pc = "returned" =>
              /\ hist[i].invoked = hist[i].list_begin
              /\ ResultHandlers(i) = hist[i].list_begin

\* C8 witness: the fire is running the second handler of its snapshot after
\* the registry was cleared and a handler registered during the fire.
C8_Witness ==
    \E i \in SyncInstances :
        /\ fire[i].pc = "exec"
        /\ fire[i].idx = 2
        /\ Len(hist[i].list_begin) = 2
        /\ Len(handler_list[i]) = 1
        /\ handler_list[i][1] # hist[i].list_begin[1]
        /\ handler_list[i][1] # hist[i].list_begin[2]

\* C10 as stated: a fire that starts after a successful unhandle(h) (and no
\* later handle(h)) does not invoke h.
C10_Original ==
    \A i \in SyncInstances :
        \A k \in DOMAIN hist[i].invoked : hist[i].invoked[k] \notin unh[i].begin

\* C10, amended: a fire that starts after a successful unhandle(h) invokes h
\* once per registration of h left in the registry at its start: not at all
\* when none is left.
C10_RemainingRegistrations ==
    \A i \in SyncInstances :
        \A h \in unh[i].begin :
            /\ Count(hist[i].invoked, h) <= Count(hist[i].reg_begin, h)
            /\ fire[i].pc = "returned" =>
                   Count(hist[i].invoked, h) = Count(hist[i].reg_begin, h)

\* C10 witness: a fire that started after unhandle(h) took the only
\* registration of h out has returned, having invoked another handler and
\* not h.
C10_Witness ==
    \E i \in SyncInstances :
        \E h \in unh[i].begin :
            /\ fire[i].pc = "returned"
            /\ Len(hist[i].invoked) = 1
            /\ Count(hist[i].invoked, h) = 0

\* C11: unhandle(h) on a registry that holds h takes the first occurrence of
\* h out and leaves the other entries where they were, in their order; on a
\* registry that does not hold h it raises ValueError and leaves the
\* registry as it was.
C11_UnhandleFirstOccurrence ==
    \A i \in SyncInstances :
        LET c == reg[i].last IN
        c.op = "unhandle" =>
            IF Contains(c.before, c.h)
              THEN /\ handler_list[i] = RemoveFirst(c.before, c.h)
                   /\ exc_raised[i] = "none"
              ELSE /\ handler_list[i] = c.before
                   /\ exc_raised[i] = "ValueError"

\* C11 witness: unhandle(h) has just acted on a registry holding h, another
\* handler, h: the other handler and the second h are left, in this order.
C11_Witness ==
    \E i \in SyncInstances :
        LET c == reg[i].last IN
        /\ c.op = "unhandle"
        /\ Len(c.before) = 3
        /\ c.before[1] = c.h /\ c.before[2] # c.h /\ c.before[3] = c.h
        /\ handler_list[i] = <<c.before[2], c.h>>

\* C12: getHandlerCount() is the number of calls of handle less the number
\* of successful calls of unhandle since the last clear (or since the
\* construction), whatever fire is doing meanwhile; it is 0 right after
\* clear and never negative.
C12_CountIsLiveRegistrations ==
    \A i \in SyncInstances :
        /\ getHandlerCount(i) = reg[i].live
        /\ getHandlerCount(i) >= 0
        /\ reg[i].last.op = "clear" => getHandlerCount(i) = 0

\* C12 witness: while a fire over three registrations is running a handler,
\* one of them was unhandled and a failed unhandle followed: the count is 2.
C12_Witness ==
    \E i \in SyncInstances :
        /\ fire[i].pc = "exec"
        /\ Len(fire[i].handler_list) = 3
        /\ reg[i].last.op = "unhandle"
        /\ exc_raised[i] = "ValueError"
        /\ reg[i].live = 2
        /\ getHandlerCount(i) = 2

Ids(items) == [k \in DOMAIN items |-> items[k].id]

\* the work item a worker thread is running, if any, as a sequence
Running == IF \E t \in DOMAIN threads : threads[t].pc = "exec"
             THEN <<(CHOOSE t \in DOMAIN threads : threads[t].pc = "exec")>>
             ELSE <<>>

\* C14: with fires of several instances in progress at once, the worker runs
\* one handler at a time, in the order in which the work items arrived in the
\* queue (the ids number the puts), none left out; a fire puts its handlers
\* in the order of its snapshot.
C14_ExecutionOrder ==
    /\ Cardinality({t \in DOMAIN threads : threads[t].pc = "exec"}) <= 1
    /\ executed = [k \in 1..Len(executed) |-> k]
    /\ \A k \in DOMAIN Running : threads[Running[k]].cur.id = Len(executed) + 1
    /\ Ids(async_queue.items) =
          [k \in 1..Len(async_queue.items) |-> Len(executed) + Len(Running) + k]
    /\ \A i \in OrderInstances :
          /\ Len(hist[i].queued) <= Len(hist[i].list_begin)
          /\ \A k \in DOMAIN hist[i].queued :
                /\ hist[i].queued[k].target = hist[i].list_begin[k]
                /\ \A j \in 1..(k - 1) : hist[i].queued[j].id < hist[i].queued[k].id

\* C14 witness: a fire of one instance put the first and the third work
\* item, a fire of another instance the second, and the worker has run the
\* three in this order.
C14_Witness ==
    /\ executed = <<1, 2, 3>>
    /\ \E i, j \in OrderInstances :
          /\ i # j
          /\ Ids(hist[i].queued) = <<1, 3>>
          /\ Ids(hist[j].queued) = <<2>>

\* a step that changes the items of the shared queue is the put of one item
\* at its end, or a worker thread's get taking the item at its head
QueueStep ==
    \/ async_queue'.items = async_queue.items
    \/ /\ Len(async_queue'.items) = Len(async_queue.items) + 1
       /\ SubSeq(async_queue'.items, 1, Len(async_queue.items)) = async_queue.items
       /\ nput' = nput + 1
    \/ /\ async_queue.items # <<>>
       /\ async_queue'.items = Tail(async_queue.items)
       /\ \E t \in DOMAIN threads :
             /\ threads[t].pc = "get"
             /\ threads'[t].pc = "exec"
             /\ threads'[t].cur = Head(async_queue.items)

\* C15: however the constructions of asynchronous instances interleave, at
\* most one worker thread is running; the queue, once made, stays the queue
\* (it is not made again and loses no item), and only a worker thread's get
\* takes items out of it.
C15_OneWorkerOneQueue ==
    /\ [](Cardinality({t \in DOMAIN threads :
                          threads[t].pc \in {"while", "get", "exec"}}) <= 1)
    /\ [][async_queue.exists => (async_queue'.exists /\ QueueStep)]_vars

\* C15 witness: two instances are constructed and live, a work item is in
\* the queue, and the one thread there is runs for both.
C15_Witness ==
    /\ \A i \in AsyncInstances : ipc[i] = "live"
    /\ Cardinality(AsyncInstances) >= 2
    /\ Len(threads) = 1
    /\ threads[1].pc \in {"while", "get", "exec"}
    /\ threads[1].nof_eventsources = Cardinality(AsyncInstances)
    /\ async_queue.items # <<>>

\* C16: in either mode, the result list of a fire holds one entry per
\* handler of the list the fire copied, in the order of the copy, a triple
\* whose third component is that handler: never more entries than handlers,
\* and all of them when the fire returns.  A fire on an empty registry
\* invokes and queues nothing, raises nothing and can only return the empty
\* list.
C16_OneEntryPerHandler ==
    \A i \in ModeInstances :
        /\ Len(fire[i].result_list) <= Len(hist[i].list_begin)
        /\ \A k \in DOMAIN fire[i].result_list :
              /\ Len(fire[i].result_list[k]) = 3
              /\ fire[i].result_list[k][3] = hist[i].list_begin[k]
        /\ fire[i].pc = "returned" => Len(fire[i].result_list) = Len(hist[i].list_begin)
        /\ (fire[i].pc # "idle" /\ hist[i].list_begin = <<>>) =>
              /\ fire[i].pc \in {"for", "returned"}
              /\ fire[i].pc = "for" => ENABLED FireReturn(i)
              /\ fire[i].result_list = <<>>
              /\ hist[i].invoked = <<>>
              /\ hist[i].queued = <<>>

\* C16 witness: a fire in asynchronous mode has returned the entries of the
\* two different handlers of its snapshot, in their order.
C16_Witness ==
    \E i \in ModeInstances :
        /\ ~sync_mode[i]
        /\ fire[i].pc = "returned"
        /\ hist[i].list_begin = <<"cb3", "cb1">>
        /\ ResultHandlers(i) = <<"cb3", "cb1">>

\* C17: a worker thread leaves its loop only when the pass that just ended
\* found the queue empty (or before its first pass), not right after running
\* a work item, and never while work items are in the queue.
C17_TerminatesAfterEmptyPoll ==
    [][\A t \in DOMAIN threads :
          (threads[t].pc = "while" /\ threads'[t].pc = "done") =>
              /\ threads[t].empty_poll \/ executed = <<>>
              /\ async_queue.items = <<>>]_vars

\* C19: the entry of a handler that raised the exception e holds, after
\* False, e alone when exc_info is false, the pair (class of e, e) when
\* exc_info is true and traceback false, and the triple (class of e, e,
\* traceback) when both are true.  Whatever the flags, the fire invokes the
\* handlers of its snapshot in order and a handler that returns True gets
\* the entry (True, True, handler).
C19_FailurePayload ==
    \A i \in SyncInstances :
        /\ IsPrefix(hist[i].invoked, hist[i].list_begin)
        /\ \A k \in DOMAIN fire[i].result_list :
              LET h == fire[i].result_list[k][3]
                  out == Call(h)
              IN  /\ h = "cb1" => fire[i].result_list[k] = <<PyTrue, PyTrue, h>>
                  /\ out.kind = "raise" =>
                        /\ fire[i].result_list[k][1] = PyFalse
                        /\ fire[i].result_list[k][2] =
                              IF ~exc_info[i]
                                THEN out.exc
                                ELSE IF ~traceback[i]
                                  THEN PyTuple(<<PyType(out.exc.cls), out.exc>>)
                                  ELSE PyTuple(<<PyType(out.exc.cls), out.exc,
                                                 PyTraceback>>)

\* C19 witness: with exc_info true and traceback false, a fire has returned
\* the pair for the handler that raised and the Success entry for the other.
C19_Witness ==
    \E i \in SyncInstances :
        /\ exc_info[i] /\ ~traceback[i]
        /\ fire[i].pc = "returned"
        /\ fire[i].result_list =
              << <<PyFalse,
                   PyTuple(<<PyType("ZeroDivisionError"), PyExc("ZeroDivisionError")>>),
                   "cb3">>,
                 <<PyTrue, PyTrue, "cb1">> >>

\* what the instances in asynchronous mode share: the class attributes and
\* the thread object with its counter
SharedState == <<alock, async_queue, async_thread, threads>>

\* a step of handle, unhandle or clear on the instance
RegistryStep(i) ==
    /\ ipc[i] = "live" /\ ipc'[i] = "live"
    /\ fire'[i] = fire[i]
    /\ handler_list'[i] # handler_list[i] \/ exc_raised'[i] # exc_raised[i]

\* C20: no step of the instance in synchronous mode (its construction, its
\* registry calls, its fires, its finalization) changes the queue, the
\* thread object, its counter or _alock; no registry call on either instance
\* changes them or the registry of the other instance; and the worker runs
\* the work item it took whatever the registry holds by then.
C20_SharedStateUntouched ==
    [][/\ \A i \in SyncInstances :
             (\/ ipc'[i] # ipc[i]
              \/ fire'[i] # fire[i]
              \/ handler_list'[i] # handler_list[i]
              \/ exc_raised'[i] # exc_raised[i]) => UNCHANGED SharedState
       /\ \A i \in FrameInstances :
             RegistryStep(i) =>
                 /\ UNCHANGED SharedState
                 /\ \A j \in FrameInstances \ {i} : handler_list'[j] = handler_list[j]
       /\ \A t \in DOMAIN threads :
             (threads[t].pc = "exec" /\ threads'[t].pc # "exec") =>
                 executed' = Append(executed, threads[t].cur.id)]_vars

\* C20 witness: the worker is running the work item of a handler that the
\* asynchronous instance has meanwhile taken out of its registry, and the
\* synchronous instance has fired its own handler and returned.
C20_Witness ==
    /\ \E t \in DOMAIN threads : threads[t].pc = "exec" /\ threads[t].cur.target = "cb1"
    /\ \E i \in DispatchInstances :
          /\ ipc[i] = "live"
          /\ handler_list[i] = <<>>
          /\ exc_raised[i] = "none"
          /\ hist[i].queued # <<>>
    /\ \E i \in SyncInstances :
          /\ fire[i].pc = "returned"
          /\ fire[i].result_list = << <<PyTrue, PyTrue, "cb1">> >>

\* C18: a thread inside self._hlock can always finish what it is doing
\* there and release the lock, and the lock is held only so long; while a
\* handler runs in a fire, the firing thread does not hold the lock, so the
\* handler can enter each of handle, unhandle, clear, getHandlerCount and
\* fire on its instance as soon as no other thread is inside the lock, and
\* another thread can enter them without waiting for the handler.
C18_NoDeadlockNoWaiting ==
    \A i \in SyncInstances :
        /\ \A c \in Callers :
              call[c] # "none" => hlock[i].owner = c /\ ENABLED (CallDo(i, c) \/ FireCopy(i))
        /\ hlock[i].owner # "none" => call[hlock[i].owner] # "none"
        /\ fire[i].pc = "exec" =>
              /\ call["T1"] = "none" =>
                    /\ hlock[i].owner # "T1"
                    /\ \A op \in Ops :
                          \/ ENABLED CallLock(i, "T1", op)
                          \/ hlock[i].owner = "T2" /\ ENABLED CallDo(i, "T2")
              /\ call["T2"] = "none" =>
                    \A op \in Ops :
                        \/ ENABLED CallLock(i, "T2", op)
                        \/ hlock[i].owner = "T1" /\ ENABLED CallDo(i, "T1")

\* C18 witness: the handler that a fire is running has called unhandle on
\* its own instance and is inside the lock, with the other thread idle.
C18_Witness ==
    \E i \in SyncInstances :
        /\ fire[i].pc = "exec"
        /\ call["T1"] = "unhandle"
        /\ hlock[i].owner = "T1"
        /\ call["T2"] = "none"

\* the instances whose increment of the counter is written and whose
\* decrement is not
Counted == {i \in AsyncInstances : ipc[i] \in {"live", "dec_store"}}

\* a worker thread is inside its loop
WorkerRunning == \E t \in DOMAIN threads : threads[t].pc \in {"while", "get", "exec"}

\* asynchronous instances were constructed and every one of them is finalized
AllDisposed ==
    /\ \E i \in AsyncInstances : ipc[i] = "disposed"
    /\ \A i \in AsyncInstances : ipc[i] \in {"none", "disposed"}

\* C1: when the construction of an asynchronous instance completes, the
\* thread EventSystem._async_thread names is running.
C1_LiveWorkerAtConstruction ==
    [][\A i \in AsyncInstances :
          (ipc[i] # "live" /\ ipc'[i] = "live") =>
              /\ async_thread' # 0
              /\ threads'[async_thread'].pc \in {"while", "get", "exec"}]_vars

\* C2: every work item put on the queue is eventually run by the worker, and
\* no work item is run twice.
C2_EveryItemExecutedOnce ==
    /\ \A id \in 1..MaxItems :
          (nput >= id) ~> (\E k \in DOMAIN executed : executed[k] = id)
    /\ [](\A id \in 1..MaxItems : Count(executed, id) <= 1)

\* C3: once every asynchronous instance that was constructed is finalized,
\* the worker thread leaves its loop (unless an instance is constructed
\* before it does).
C3_WorkerTerminates == AllDisposed ~> (~WorkerRunning \/ ~AllDisposed)

\* C3 witness: both of two instances are finalized and the worker that ran
\* for them has left its loop.
C3_Witness ==
    /\ Cardinality({i \in AsyncInstances : ipc[i] = "disposed"}) >= 2
    /\ AllDisposed
    /\ threads # <<>>
    /\ ~WorkerRunning

\* C4: the counter of the worker is the number of asynchronous instances
\* constructed and not finalized, and is never negative; without a worker
\* there is no such instance.
C4_CountIsLiveInstances ==
    IF async_thread = 0
      THEN Counted = {}
      ELSE /\ threads[async_thread].nof_eventsources = Cardinality(Counted)
           /\ threads[async_thread].nof_eventsources >= 0

\* C4 witness: two instances were constructed, one of them is finalized, the
\* counter is back at 1.
C4_Witness ==
    /\ async_thread # 0
    /\ threads[async_thread].nof_eventsources = 1
    /\ \E i, j \in AsyncInstances : ipc[i] = "disposed" /\ ipc[j] = "live"

\* C9: at no point of an asynchronous fire does the fire wait (its next step
\* can be taken whatever the worker is doing); it puts one work item per
\* handler of its snapshot, in snapshot order, and its result list holds the
\* entry (None, None, handler) for each of them.
C9_FireDoesNotWait ==
    \A i \in DispatchInstances :
        /\ fire[i].pc = "for" => ENABLED (FirePut(i) \/ FireReturn(i))
        /\ Len(hist[i].queued) <= Len(hist[i].list_begin)
        /\ \A k \in DOMAIN hist[i].queued :
              hist[i].queued[k].target = hist[i].list_begin[k]
        /\ fire[i].result_list =
              [k \in DOMAIN hist[i].queued |-> <<PyNone, PyNone, hist[i].list_begin[k]>>]
        /\ fire[i].pc = "returned" => Len(hist[i].queued) = Len(hist[i].list_begin)
        /\ \A k \in DOMAIN async_queue.items :
              /\ \A j \in 1..(k - 1) : async_queue.items[j].id < async_queue.items[k].id
              /\ \A j \in DOMAIN hist[i].queued :
                    hist[i].queued[j].id = async_queue.items[k].id =>
                        hist[i].queued[j] = async_queue.items[k]

\* C9 witness: a fire of two handlers has returned while the worker is still
\* running the first of them.
C9_Witness ==
    \E i \in DispatchInstances :
        /\ fire[i].pc = "returned"
        /\ Len(fire[i].result_list) = 2
        /\ executed = <<>>
        /\ \E t \in DOMAIN threads :
              threads[t].pc = "exec" /\ threads[t].cur = hist[i].queued[1]

====
